---- MODULE Spec2Model ----
(***************************************************************************)
(* State-machine model of the Keycloak / Logipad clients of LPProject:     *)
(*   logipad::auth::KeycloakClient     (identity-provider client)          *)
(*   logipad::client::LogipadClient    (directory client)                  *)
(*   LPLogipadClient                   (non-namespaced directory client)   *)
(* Every public operation is one action; the server's answer to each       *)
(* request the operation sends is an input of the action.                  *)
(***************************************************************************)
EXTENDS Integers, Sequences, FiniteSets, TLC

VARIABLES
    kc,       \* the KeycloakClient instance (its private members)
    lc,       \* the logipad::client::LogipadClient instance
    users,    \* the caller's LogipadClient::Users collection
    lp,       \* the LPLogipadClient instance
    lpUsers,  \* the caller's LPLogipadClient::Users collection
    call,     \* name of the last public operation called
    args,     \* its arguments
    pre,      \* the callee's m_accessToken when the operation was called
    ret,      \* how it ended: "true", "false", or the exception that escaped
    wire,     \* the requests it sent, each with the answer it got
    document  \* the JSON document the last User::toJson() call returned

vars == <<kc, lc, users, lp, lpUsers, call, args, pre, ret, wire, document>>

(***************************************************************************)
(* Bounds                                                                  *)
(***************************************************************************)
\* largest number of entries in a user array of a directory response
MaxUsers == 2

(***************************************************************************)
(* nlohmann::json values                                                   *)
(***************************************************************************)
JNull == [t |-> "null"]

JStr(s) == [t |-> "string", s |-> s]

JBool(b) == [t |-> "boolean", b |-> b]

JNum(n) == [t |-> "number", n |-> n]

JArr(a) == [t |-> "array", a |-> a]

JObj(o) == [t |-> "object", o |-> o]

\* the document of a body that is no JSON text
Invalid == [t |-> "invalid"]

NoExc == "none"

ParseError == "json.exception.parse_error"

TypeError == "json.exception.type_error"

\* a response body: its text, and the document the text denotes (Invalid when
\* the text is not JSON; the empty text is not JSON)
Body(raw, doc) == [raw |-> raw, doc |-> doc]

\* nlohmann::json::parse: the document, or parse_error
parse(body) ==
    IF body.doc = Invalid
    THEN [exc |-> ParseError, v |-> JNull]
    ELSE [exc |-> NoExc, v |-> body.doc]

\* basic_json::contains(key): false on everything that is not an object
contains(j, key) == j.t = "object" /\ key \in DOMAIN j.o

is_null(j) == j.t = "null"

is_array(j) == j.t = "array"

is_object(j) == j.t = "object"

\* basic_json::get<std::string>(): type_error unless the value is a string
get_string(j) ==
    IF j.t = "string"
    THEN [exc |-> NoExc, v |-> j.s]
    ELSE [exc |-> TypeError, v |-> ""]

\* basic_json::get<bool>(): type_error unless the value is a boolean
get_bool(j) ==
    IF j.t = "boolean"
    THEN [exc |-> NoExc, v |-> j.b]
    ELSE [exc |-> TypeError, v |-> FALSE]

\* non-const basic_json::operator[](key): a null value becomes an object, a
\* missing key is inserted with a null value, anything but an object throws
index(j, key) ==
    IF j.t = "object"
    THEN [exc |-> NoExc, v |-> IF key \in DOMAIN j.o THEN j.o[key] ELSE JNull]
    ELSE IF j.t = "null"
    THEN [exc |-> NoExc, v |-> JNull]
    ELSE [exc |-> TypeError, v |-> JNull]

(***************************************************************************)
(* httplib results                                                         *)
(***************************************************************************)
\* httplib::Result: `received` is its operator bool (false: no response)
Result(status, body) == [received |-> TRUE, status |-> status, body |-> body]

NoResult == [received |-> FALSE, status |-> -1, body |-> Body("", Invalid)]

Exchange(req, res) == [req |-> req, res |-> res]

Range(s) == {s[i] : i \in DOMAIN s}

(***************************************************************************)
(* logipad::auth::KeycloakClient                                           *)
(***************************************************************************)
\* the form-encoded token request of the password grant
TokenRequest(realm, clientId, username, password) ==
    [method |-> "POST",
     path |-> <<"/realms/", realm, "/protocol/openid-connect/token">>,
     headers |-> <<>>,
     params |-> [client_id |-> clientId, grant_type |-> "password",
                 username |-> username, password |-> password]]

\* outcome of a member function: the object afterwards, the value returned
\* (or the exception that left it) and the exchanges on the wire
Outcome(self, r, w) == [self |-> self, ret |-> r, wire |-> w]

\* authenticate() from the token request on
KeycloakClient_authenticate_post(c0, res) ==
    LET req == TokenRequest(c0.m_realm, c0.m_clientId, c0.m_username, c0.m_password)
        w == <<Exchange(req, res)>>
    IN  IF res.received /\ res.status = 200
        THEN LET p == parse(res.body)
             IN  IF p.exc # NoExc
                 THEN Outcome([c0 EXCEPT !.m_lastError =
                                  <<"Failed to parse JSON response: ", p.exc>>],
                              "false", w)
                 ELSE IF contains(p.v, "access_token")
                 THEN LET g == get_string(index(p.v, "access_token").v)
                      IN  IF g.exc # NoExc
                          THEN Outcome([c0 EXCEPT !.m_lastError =
                                           <<"Failed to parse JSON response: ", g.exc>>],
                                       "false", w)
                          ELSE Outcome([c0 EXCEPT !.m_accessToken = g.v], "true", w)
                 ELSE Outcome([c0 EXCEPT !.m_lastError =
                                  <<"Access token not found in response">>],
                              "false", w)
        ELSE IF res.received
        THEN Outcome([c0 EXCEPT !.m_lastError =
                         <<"Authentication failed with status: ", ToString(res.status)>>
                         \o (IF res.body.raw # ""
                             THEN <<" - ", res.body.raw>> ELSE <<>>)],
                     "false", w)
        ELSE Outcome([c0 EXCEPT !.m_lastError = <<"Authentication request failed">>],
                     "false", w)

\* mutant of KeycloakClient_authenticate_checked: the credentials are not checked
KeycloakClient_authenticate_unchecked(c0, res) ==
    KeycloakClient_authenticate_post(c0, res)

\* mutant of KeycloakClient_authenticate_checked: missing credentials are
\* refused without a message
KeycloakClient_authenticate_checked_silent(c0, res) ==
    IF c0.m_username = "" \/ c0.m_password = ""
    THEN Outcome(c0, "false", <<>>)
    ELSE KeycloakClient_authenticate_post(c0, res)

\* authenticate() after its two clear() calls
KeycloakClient_authenticate_checked(c0, res) ==
    IF c0.m_username = "" \/ c0.m_password = ""
    THEN Outcome([c0 EXCEPT !.m_lastError = <<"Username or password not set">>],
                 "false", <<>>)
    ELSE KeycloakClient_authenticate_post(c0, res)

\* mutant of KeycloakClient_authenticate: the token held is not cleared
KeycloakClient_authenticate_keepToken(self, res) ==
    KeycloakClient_authenticate_checked([self EXCEPT !.m_lastError = <<>>], res)

\* KeycloakClient::authenticate
KeycloakClient_authenticate(self, res) ==
    KeycloakClient_authenticate_checked(
        [self EXCEPT !.m_lastError = <<>>, !.m_accessToken = ""], res)

\* mutant of KeycloakClient_ensureAuthenticated: authenticates on every call
KeycloakClient_ensureAuthenticated_always(self, tokenRes) ==
    KeycloakClient_authenticate(self, tokenRes)

\* KeycloakClient::ensureAuthenticated: tokenRes answers the token request,
\* should one be sent
KeycloakClient_ensureAuthenticated(self, tokenRes) ==
    IF self.m_accessToken = ""
    THEN KeycloakClient_authenticate(self, tokenRes)
    ELSE Outcome(self, "true", <<>>)

\* KeycloakClient::getAuthHeaders
KeycloakClient_getAuthHeaders(self) ==
    (IF self.m_accessToken # ""
     THEN "Authorization" :> <<"Bearer ", self.m_accessToken>>
     ELSE <<>>)
    @@ ("Content-Type" :> <<"application/json">>)
    @@ ("Accept" :> <<"application/json">>)

\* mutant of UserInfo_toJson: the credential is not marked temporary
UserInfo_toJson_permanent(userInfo) ==
    JObj([username |-> JStr(userInfo.username),
          email |-> JStr(userInfo.email),
          firstName |-> JStr(userInfo.firstName),
          lastName |-> JStr(userInfo.lastName),
          enabled |-> JBool(userInfo.enabled),
          emailVerified |-> JBool(userInfo.emailVerified)]
         @@ (IF userInfo.password # ""
             THEN [credentials |->
                      JArr(<<JObj([type |-> JStr("password"),
                                   value |-> JStr("logipad"),
                                   temporary |-> JBool(FALSE)])>>)]
             ELSE <<>>))

\* mutant of UserInfo_toJson: the credential carries the record's password
UserInfo_toJson_suppliedPassword(userInfo) ==
    JObj([username |-> JStr(userInfo.username),
          email |-> JStr(userInfo.email),
          firstName |-> JStr(userInfo.firstName),
          lastName |-> JStr(userInfo.lastName),
          enabled |-> JBool(userInfo.enabled),
          emailVerified |-> JBool(userInfo.emailVerified)]
         @@ (IF userInfo.password # ""
             THEN [credentials |->
                      JArr(<<JObj([type |-> JStr("password"),
                                   value |-> JStr(userInfo.password),
                                   temporary |-> JBool(TRUE)])>>)]
             ELSE <<>>))

\* KeycloakClient::UserInfo::toJson
UserInfo_toJson(userInfo) ==
    JObj([username |-> JStr(userInfo.username),
          email |-> JStr(userInfo.email),
          firstName |-> JStr(userInfo.firstName),
          lastName |-> JStr(userInfo.lastName),
          enabled |-> JBool(userInfo.enabled),
          emailVerified |-> JBool(userInfo.emailVerified)]
         @@ (IF userInfo.password # ""
             THEN [credentials |->
                      JArr(<<JObj([type |-> JStr("password"),
                                   value |-> JStr("logipad"),
                                   temporary |-> JBool(TRUE)])>>)]
             ELSE <<>>))

\* the user-creation request
CreateUserRequest(realm, headers, userJson) ==
    [method |-> "POST",
     path |-> <<"/admin/realms/", realm, "/users">>,
     headers |-> headers,
     body |-> userJson]

\* the text createUser appends to "Failed to create user. Status: n" for a
\* non-empty error body
CreateUserErrorDetail(body) ==
    LET p == parse(body)
    IN  IF p.exc # NoExc
        THEN <<" - ", body.raw>>
        ELSE IF contains(p.v, "errorMessage")
        THEN LET g == get_string(index(p.v, "errorMessage").v)
             IN  IF g.exc # NoExc
                 THEN <<" - ", body.raw>>
                 ELSE <<" - ", g.v>>
        ELSE <<" - ", body.raw>>

\* createUser: the answer to the creation request when it is not a 201
KeycloakClient_createUser_failure(c, userInfo, w, res) ==
    IF res.received /\ res.status = 409
    THEN Outcome([c EXCEPT !.m_lastError =
                     <<"User with username '", userInfo.username, "' already exists">>],
                 "false", w)
    ELSE IF res.received
    THEN Outcome([c EXCEPT !.m_lastError =
                     <<"Failed to create user. Status: ", ToString(res.status)>>
                     \o (IF res.body.raw # ""
                         THEN CreateUserErrorDetail(res.body) ELSE <<>>)],
                 "false", w)
    ELSE Outcome([c EXCEPT !.m_lastError = <<"Request failed to create user">>],
                 "false", w)

\* mutant of KeycloakClient_createUser_response: every 2xx status is a success
KeycloakClient_createUser_response_2xx(c, userInfo, w, res) ==
    IF res.received /\ res.status \in 200..299
    THEN Outcome(c, "true", w)
    ELSE KeycloakClient_createUser_failure(c, userInfo, w, res)

\* mutant of KeycloakClient_createUser_response: a creation request that is
\* not answered 201 is sent a second time
KeycloakClient_createUser_response_retry(c, userInfo, w, res) ==
    IF res.received /\ res.status = 201
    THEN Outcome(c, "true", w)
    ELSE KeycloakClient_createUser_failure(c, userInfo, w \o <<w[Len(w)]>>, res)

\* mutant of KeycloakClient_createUser_response: a 401 answer drops the token
KeycloakClient_createUser_response_dropToken(c, userInfo, w, res) ==
    IF res.received /\ res.status = 201
    THEN Outcome(c, "true", w)
    ELSE IF res.received /\ res.status = 401
    THEN KeycloakClient_createUser_failure(
             [c EXCEPT !.m_accessToken = ""], userInfo, w, res)
    ELSE KeycloakClient_createUser_failure(c, userInfo, w, res)

\* createUser from the POST on: how the answer to the creation request is read
KeycloakClient_createUser_response(c, userInfo, w, res) ==
    IF res.received /\ res.status = 201
    THEN Outcome(c, "true", w)
    ELSE KeycloakClient_createUser_failure(c, userInfo, w, res)

\* KeycloakClient::createUser: tokenRes answers the token request and res the
\* creation request, should they be sent
KeycloakClient_createUser(self, userInfo, realm, tokenRes, res) ==
    LET c1 == [self EXCEPT !.m_lastError = <<>>]
        ea == KeycloakClient_ensureAuthenticated(c1, tokenRes)
        c2 == ea.self
    IN  IF ea.ret # "true"
        THEN Outcome([c2 EXCEPT !.m_lastError =
                         <<"Not authenticated: ">> \o c2.m_lastError],
                     "false", ea.wire)
        ELSE IF userInfo.username = ""
        THEN Outcome([c2 EXCEPT !.m_lastError = <<"Username is required">>],
                     "false", ea.wire)
        ELSE IF userInfo.email = ""
        THEN Outcome([c2 EXCEPT !.m_lastError = <<"Email is required">>],
                     "false", ea.wire)
        ELSE LET req == CreateUserRequest(realm, KeycloakClient_getAuthHeaders(c2),
                                          UserInfo_toJson(userInfo))
             IN  KeycloakClient_createUser_response(
                     c2, userInfo, ea.wire \o <<Exchange(req, res)>>, res)

\* mutant of KeycloakClient_setCredentials: the token is cleared only when
\* the username changes
KeycloakClient_setCredentials_clearOnNewUser(self, username, password) ==
    Outcome([self EXCEPT !.m_username = username,
                         !.m_password = password,
                         !.m_accessToken = IF username = self.m_username
                                           THEN self.m_accessToken ELSE ""],
            "void", <<>>)

\* mutant of KeycloakClient_setCredentials: the token held is kept
KeycloakClient_setCredentials_keepToken(self, username, password) ==
    Outcome([self EXCEPT !.m_username = username,
                         !.m_password = password],
            "void", <<>>)

\* KeycloakClient::setCredentials
KeycloakClient_setCredentials(self, username, password) ==
    Outcome([self EXCEPT !.m_username = username,
                         !.m_password = password,
                         !.m_accessToken = ""],
            "void", <<>>)

(***************************************************************************)
(* What the two directory clients share in the model: std::optional, the   *)
(* GET /users request, and the shape of getAllUsers' outcome               *)
(***************************************************************************)
nullopt == [has_value |-> FALSE]

some(s) == [has_value |-> TRUE, value |-> s]

\* mutant of OptionalString: a field that is absent or null is given the
\* empty string
OptionalString_defaulted(userJson, key) ==
    IF contains(userJson, key) /\ ~is_null(userJson.o[key])
    THEN LET g == get_string(userJson.o[key])
         IN  [exc |-> g.exc, v |-> IF g.exc = NoExc THEN some(g.v) ELSE nullopt]
    ELSE [exc |-> NoExc, v |-> some("")]

\* if (userJson.contains(k) && !userJson[k].is_null()) user.k = userJson[k].get<std::string>()
OptionalString(userJson, key) ==
    IF contains(userJson, key) /\ ~is_null(userJson.o[key])
    THEN LET g == get_string(userJson.o[key])
         IN  [exc |-> g.exc, v |-> IF g.exc = NoExc THEN some(g.v) ELSE nullopt]
    ELSE [exc |-> NoExc, v |-> nullopt]

\* mutant of BoolOrDefault: a null value is read as an absent key
BoolOrDefault_nullAsAbsent(userJson, key, default) ==
    IF contains(userJson, key) /\ ~is_null(userJson.o[key])
    THEN get_bool(userJson.o[key])
    ELSE [exc |-> NoExc, v |-> default]

\* mutant of BoolOrDefault: the value of the entry is not read
BoolOrDefault_unread(userJson, key, default) ==
    [exc |-> NoExc, v |-> default]

\* user.k = userJson.contains(k) ? userJson[k].get<bool>() : default
BoolOrDefault(userJson, key, default) ==
    IF contains(userJson, key)
    THEN get_bool(userJson.o[key])
    ELSE [exc |-> NoExc, v |-> default]

\* the first exception thrown by a sequence of statements, if any
FirstExc(steps) ==
    IF \A i \in DOMAIN steps : steps[i].exc = NoExc
    THEN NoExc
    ELSE steps[CHOOSE i \in DOMAIN steps :
                   /\ steps[i].exc # NoExc
                   /\ \A k \in DOMAIN steps : k < i => steps[k].exc = NoExc].exc

\* GET /users on a fresh httplib::SSLClient for apiHost:apiPort
UsersRequest(apiHost, apiPort, accessToken) ==
    [method |-> "GET",
     host |-> apiHost,
     port |-> apiPort,
     path |-> <<"/users">>,
     headers |-> ("Authorization" :> <<"Bearer ", accessToken>>)
                 @@ ("Accept" :> <<"application/json">>)]

\* outcome of getAllUsers: the client, the caller's collection, the value
\* returned and the exchanges on the wire
UsersOutcome(self, us, r, w) == [self |-> self, users |-> us, ret |-> r, wire |-> w]

(***************************************************************************)
(* logipad::client::LogipadClient (LPHelperObject.cpp)                    *)
(***************************************************************************)
\* mutant of LogipadClient_authenticate: the token held is not cleared first
LogipadClient_authenticate_keepToken(self, res) ==
    IF self.m_username = "" \/ self.m_password = ""
    THEN Outcome(self, "false", <<>>)
    ELSE LET req == TokenRequest(self.m_realm, self.m_clientId,
                                 self.m_username, self.m_password)
             w == <<Exchange(req, res)>>
         IN  IF res.received /\ res.status = 200
             THEN LET p == parse(res.body)
                      ix == index(p.v, "access_token")
                      g == get_string(ix.v)
                  IN  IF p.exc # NoExc THEN Outcome(self, p.exc, w)
                      ELSE IF ix.exc # NoExc THEN Outcome(self, ix.exc, w)
                      ELSE IF g.exc # NoExc THEN Outcome(self, g.exc, w)
                      ELSE Outcome([self EXCEPT !.m_accessToken = g.v], "true", w)
             ELSE Outcome(self, "false", w)

\* LogipadClient::authenticate: the exceptions of parse, operator[] and the
\* conversion to std::string are not caught
LogipadClient_authenticate(self, res) ==
    LET c0 == [self EXCEPT !.m_accessToken = ""]
    IN  IF c0.m_username = "" \/ c0.m_password = ""
        THEN Outcome(c0, "false", <<>>)
        ELSE LET req == TokenRequest(c0.m_realm, c0.m_clientId,
                                     c0.m_username, c0.m_password)
                 w == <<Exchange(req, res)>>
             IN  IF res.received /\ res.status = 200
                 THEN LET p == parse(res.body)
                          ix == index(p.v, "access_token")
                          g == get_string(ix.v)
                      IN  IF p.exc # NoExc THEN Outcome(c0, p.exc, w)
                          ELSE IF ix.exc # NoExc THEN Outcome(c0, ix.exc, w)
                          ELSE IF g.exc # NoExc THEN Outcome(c0, g.exc, w)
                          ELSE Outcome([c0 EXCEPT !.m_accessToken = g.v], "true", w)
                 ELSE Outcome(c0, "false", w)

\* if (k.has_value()) json["k"] = k.value();
LogipadClient_User_member(user, key) ==
    IF user[key].has_value THEN key :> JStr(user[key].value) ELSE <<>>

\* LogipadClient::User::toJson: the optional members, in the order of the code
LogipadClient_User_optionalMembers(user) ==
    LogipadClient_User_member(user, "created_at")
    @@ LogipadClient_User_member(user, "created_by")
    @@ LogipadClient_User_member(user, "modified_at")
    @@ LogipadClient_User_member(user, "modified_by")
    @@ LogipadClient_User_member(user, "last_login_at")
    @@ LogipadClient_User_member(user, "last_activity_at")
    @@ LogipadClient_User_member(user, "last_document_service_activity")
    @@ LogipadClient_User_member(user, "last_eform_service_activity")
    @@ LogipadClient_User_member(user, "last_briefing_service_activity")
    @@ LogipadClient_User_member(user, "name")
    @@ LogipadClient_User_member(user, "type")
    @@ LogipadClient_User_member(user, "full_name")
    @@ LogipadClient_User_member(user, "email")
    @@ LogipadClient_User_member(user, "three_lc")
    @@ LogipadClient_User_member(user, "department")
    @@ LogipadClient_User_member(user, "description")

\* mutant of LogipadClient_User_toJson: is_active is written only when it is true
LogipadClient_User_toJson_activeOnly(user) ==
    JObj(("guid" :> JStr(user.guid))
         @@ LogipadClient_User_optionalMembers(user)
         @@ (IF user.is_active THEN "is_active" :> JBool(TRUE) ELSE <<>>)
         @@ ("is_reportable" :> JBool(user.is_reportable)))

\* LogipadClient::User::toJson
LogipadClient_User_toJson(user) ==
    JObj(("guid" :> JStr(user.guid))
         @@ LogipadClient_User_optionalMembers(user)
         @@ ("is_active" :> JBool(user.is_active))
         @@ ("is_reportable" :> JBool(user.is_reportable)))

\* LogipadClient::getAllUsers: the body of the loop over a top-level array
LogipadClient_mapArrayEntry(userJson) ==
    LET guid == IF contains(userJson, "guid")
                THEN get_string(userJson.o["guid"])
                ELSE [exc |-> NoExc, v |-> ""]
        created_at == OptionalString(userJson, "created_at")
        created_by == OptionalString(userJson, "created_by")
        modified_at == OptionalString(userJson, "modified_at")
        modified_by == OptionalString(userJson, "modified_by")
        last_login_at == OptionalString(userJson, "last_login_at")
        last_activity_at == OptionalString(userJson, "last_activity_at")
        last_document_service_activity == OptionalString(userJson, "last_document_service_activity")
        last_eform_service_activity == OptionalString(userJson, "last_eform_service_activity")
        last_briefing_service_activity == OptionalString(userJson, "last_briefing_service_activity")
        name == OptionalString(userJson, "name")
        type == OptionalString(userJson, "type")
        full_name == OptionalString(userJson, "full_name")
        email == OptionalString(userJson, "email")
        three_lc == OptionalString(userJson, "three_lc")
        department == OptionalString(userJson, "department")
        description == OptionalString(userJson, "description")
        is_active == BoolOrDefault(userJson, "is_active", TRUE)
        is_reportable == BoolOrDefault(userJson, "is_reportable", FALSE)
        steps == <<guid, created_at, created_by, modified_at,
                   modified_by, last_login_at, last_activity_at, last_document_service_activity,
                   last_eform_service_activity, last_briefing_service_activity, name, type,
                   full_name, email, three_lc, department,
                   description, is_active, is_reportable>>
    IN  [exc |-> FirstExc(steps),
         user |-> [guid |-> guid.v,
                  created_at |-> created_at.v,
                  created_by |-> created_by.v,
                  modified_at |-> modified_at.v,
                  modified_by |-> modified_by.v,
                  last_login_at |-> last_login_at.v,
                  last_activity_at |-> last_activity_at.v,
                  last_document_service_activity |-> last_document_service_activity.v,
                  last_eform_service_activity |-> last_eform_service_activity.v,
                  last_briefing_service_activity |-> last_briefing_service_activity.v,
                  name |-> name.v,
                  type |-> type.v,
                  full_name |-> full_name.v,
                  email |-> email.v,
                  three_lc |-> three_lc.v,
                  department |-> department.v,
                  description |-> description.v,
                  is_active |-> is_active.v,
                  is_reportable |-> is_reportable.v]]

\* LogipadClient::getAllUsers: the body of the loop over the "users" array
LogipadClient_mapNestedEntry(userJson) ==
    LET guid == IF contains(userJson, "guid")
                THEN get_string(userJson.o["guid"])
                ELSE [exc |-> NoExc, v |-> ""]
        created_at == OptionalString(userJson, "created_at")
        created_by == OptionalString(userJson, "created_by")
        modified_at == OptionalString(userJson, "modified_at")
        modified_by == OptionalString(userJson, "modified_by")
        last_login_at == OptionalString(userJson, "last_login_at")
        last_activity_at == OptionalString(userJson, "last_activity_at")
        last_document_service_activity == OptionalString(userJson, "last_document_service_activity")
        last_eform_service_activity == OptionalString(userJson, "last_eform_service_activity")
        last_briefing_service_activity == OptionalString(userJson, "last_briefing_service_activity")
        name == OptionalString(userJson, "name")
        type == OptionalString(userJson, "type")
        full_name == OptionalString(userJson, "full_name")
        email == OptionalString(userJson, "email")
        three_lc == OptionalString(userJson, "three_lc")
        department == OptionalString(userJson, "department")
        description == OptionalString(userJson, "description")
        is_active == BoolOrDefault(userJson, "is_active", TRUE)
        is_reportable == BoolOrDefault(userJson, "is_reportable", FALSE)
        steps == <<guid, created_at, created_by, modified_at,
                   modified_by, last_login_at, last_activity_at, last_document_service_activity,
                   last_eform_service_activity, last_briefing_service_activity, name, type,
                   full_name, email, three_lc, department,
                   description, is_active, is_reportable>>
    IN  [exc |-> FirstExc(steps),
         user |-> [guid |-> guid.v,
                  created_at |-> created_at.v,
                  created_by |-> created_by.v,
                  modified_at |-> modified_at.v,
                  modified_by |-> modified_by.v,
                  last_login_at |-> last_login_at.v,
                  last_activity_at |-> last_activity_at.v,
                  last_document_service_activity |-> last_document_service_activity.v,
                  last_eform_service_activity |-> last_eform_service_activity.v,
                  last_briefing_service_activity |-> last_briefing_service_activity.v,
                  name |-> name.v,
                  type |-> type.v,
                  full_name |-> full_name.v,
                  email |-> email.v,
                  three_lc |-> three_lc.v,
                  department |-> department.v,
                  description |-> description.v,
                  is_active |-> is_active.v,
                  is_reportable |-> is_reportable.v]]

RECURSIVE LogipadClient_arrayLoop(_, _)
\* the loop: entries still to map, and the collection so far; an exception
\* ends it with the entries pushed before still in the collection
LogipadClient_arrayLoop(entries, acc) ==
    IF entries = <<>>
    THEN [exc |-> NoExc, users |-> acc]
    ELSE LET m == LogipadClient_mapArrayEntry(Head(entries))
         IN  IF m.exc # NoExc
             THEN [exc |-> m.exc, users |-> acc]
             ELSE LogipadClient_arrayLoop(Tail(entries), Append(acc, m.user))

RECURSIVE LogipadClient_nestedLoop(_, _)
\* the loop: entries still to map, and the collection so far; an exception
\* ends it with the entries pushed before still in the collection
LogipadClient_nestedLoop(entries, acc) ==
    IF entries = <<>>
    THEN [exc |-> NoExc, users |-> acc]
    ELSE LET m == LogipadClient_mapNestedEntry(Head(entries))
         IN  IF m.exc # NoExc
             THEN [exc |-> m.exc, users |-> acc]
             ELSE LogipadClient_nestedLoop(Tail(entries), Append(acc, m.user))

\* mutant of LogipadClient_getAllUsers_parse: only a top-level array is read
LogipadClient_getAllUsers_parse_arrayOnly(self, body, w) ==
    LET p == parse(body)
        json == p.v
    IN  IF p.exc # NoExc
        THEN UsersOutcome(self, <<>>, "false", w)
        ELSE IF is_array(json)
        THEN LET l == LogipadClient_arrayLoop(json.a, <<>>)
             IN  UsersOutcome(self, l.users,
                              IF l.exc # NoExc THEN "false" ELSE "true", w)
        ELSE UsersOutcome(self, <<>>, "true", w)

\* mutant of LogipadClient_getAllUsers_parse: an exception in the loop over
\* the "users" array is swallowed, the listing still returns true
LogipadClient_getAllUsers_parse_nestedLenient(self, body, w) ==
    LET p == parse(body)
        json == p.v
    IN  IF p.exc # NoExc
        THEN UsersOutcome(self, <<>>, "false", w)
        ELSE IF is_array(json)
        THEN LET l == LogipadClient_arrayLoop(json.a, <<>>)
             IN  UsersOutcome(self, l.users,
                              IF l.exc # NoExc THEN "false" ELSE "true", w)
        ELSE IF is_object(json) /\ contains(json, "users")
                /\ is_array(json.o["users"])
        THEN LET l == LogipadClient_nestedLoop(json.o["users"].a, <<>>)
             IN  UsersOutcome(self, l.users, "true", w)
        ELSE UsersOutcome(self, <<>>, "true", w)

\* mutant of LogipadClient_getAllUsers_parse: a document of another shape is
\* refused
LogipadClient_getAllUsers_parse_strict(self, body, w) ==
    LET p == parse(body)
        json == p.v
    IN  IF p.exc # NoExc
        THEN UsersOutcome(self, <<>>, "false", w)
        ELSE IF is_array(json)
        THEN LET l == LogipadClient_arrayLoop(json.a, <<>>)
             IN  UsersOutcome(self, l.users,
                              IF l.exc # NoExc THEN "false" ELSE "true", w)
        ELSE IF is_object(json) /\ contains(json, "users")
                /\ is_array(json.o["users"])
        THEN LET l == LogipadClient_nestedLoop(json.o["users"].a, <<>>)
             IN  UsersOutcome(self, l.users,
                              IF l.exc # NoExc THEN "false" ELSE "true", w)
        ELSE UsersOutcome(self, <<>>, "false", w)

\* LogipadClient::getAllUsers from the parse on: how a 200 body is mapped
LogipadClient_getAllUsers_parse(self, body, w) ==
    LET p == parse(body)
        json == p.v
    IN  IF p.exc # NoExc
        THEN UsersOutcome(self, <<>>, "false", w)
        ELSE IF is_array(json)
        THEN LET l == LogipadClient_arrayLoop(json.a, <<>>)
             IN  UsersOutcome(self, l.users,
                              IF l.exc # NoExc THEN "false" ELSE "true", w)
        ELSE IF is_object(json) /\ contains(json, "users")
                /\ is_array(json.o["users"])
        THEN LET l == LogipadClient_nestedLoop(json.o["users"].a, <<>>)
             IN  UsersOutcome(self, l.users,
                              IF l.exc # NoExc THEN "false" ELSE "true", w)
        ELSE UsersOutcome(self, <<>>, "true", w)

\* mutant of LogipadClient_getAllUsers_request: every 2xx answer is read
LogipadClient_getAllUsers_request_2xx(self, apiHost, apiPort, res) ==
    LET req == UsersRequest(apiHost, apiPort, self.m_accessToken)
        w == <<Exchange(req, res)>>
    IN  IF res.received /\ res.status \in 200..299
        THEN LogipadClient_getAllUsers_parse(self, res.body, w)
        ELSE UsersOutcome(self, <<>>, "false", w)

\* LogipadClient::getAllUsers from the GET on
LogipadClient_getAllUsers_request(self, apiHost, apiPort, res) ==
    LET req == UsersRequest(apiHost, apiPort, self.m_accessToken)
        w == <<Exchange(req, res)>>
    IN  IF res.received /\ res.status = 200
        THEN LogipadClient_getAllUsers_parse(self, res.body, w)
        ELSE UsersOutcome(self, <<>>, "false", w)

\* mutant of LogipadClient_getAllUsers: the collection is cleared after the
\* token check only
LogipadClient_getAllUsers_lateClear(self, usersIn, apiHost, apiPort, res) ==
    IF self.m_accessToken = ""
    THEN UsersOutcome(self, usersIn, "false", <<>>)
    ELSE LogipadClient_getAllUsers_request(self, apiHost, apiPort, res)

\* mutant of LogipadClient_getAllUsers: the collection is not cleared, the
\* records are appended to it
LogipadClient_getAllUsers_appending(self, usersIn, apiHost, apiPort, res) ==
    IF self.m_accessToken = ""
    THEN UsersOutcome(self, usersIn, "false", <<>>)
    ELSE LET o == LogipadClient_getAllUsers_request(self, apiHost, apiPort, res)
         IN  UsersOutcome(o.self, usersIn \o o.users, o.ret, o.wire)

\* LogipadClient::getAllUsers: `usersIn` is the caller's collection (cleared
\* first), res the answer to GET /users, should it be sent
LogipadClient_getAllUsers(self, usersIn, apiHost, apiPort, res) ==
    IF self.m_accessToken = ""
    THEN UsersOutcome(self, <<>>, "false", <<>>)
    ELSE LogipadClient_getAllUsers_request(self, apiHost, apiPort, res)

(***************************************************************************)
(* LPLogipadClient (LPLogipadClient.cpp)                                  *)
(***************************************************************************)
\* LPLogipadClient::authenticate: the exceptions of parse, operator[] and the
\* conversion to std::string are not caught
LPLogipadClient_authenticate(self, res) ==
    LET c0 == [self EXCEPT !.m_accessToken = ""]
    IN  IF c0.m_username = "" \/ c0.m_password = ""
        THEN Outcome(c0, "false", <<>>)
        ELSE LET req == TokenRequest(c0.m_realm, c0.m_clientId,
                                     c0.m_username, c0.m_password)
                 w == <<Exchange(req, res)>>
             IN  IF res.received /\ res.status = 200
                 THEN LET p == parse(res.body)
                          ix == index(p.v, "access_token")
                          g == get_string(ix.v)
                      IN  IF p.exc # NoExc THEN Outcome(c0, p.exc, w)
                          ELSE IF ix.exc # NoExc THEN Outcome(c0, ix.exc, w)
                          ELSE IF g.exc # NoExc THEN Outcome(c0, g.exc, w)
                          ELSE Outcome([c0 EXCEPT !.m_accessToken = g.v], "true", w)
                 ELSE Outcome(c0, "false", w)

\* if (k.has_value()) json["k"] = k.value();
LPLogipadClient_User_member(user, key) ==
    IF user[key].has_value THEN key :> JStr(user[key].value) ELSE <<>>

\* LPLogipadClient::User::toJson: the optional members, in the order of the code
LPLogipadClient_User_optionalMembers(user) ==
    LPLogipadClient_User_member(user, "created_at")
    @@ LPLogipadClient_User_member(user, "created_by")
    @@ LPLogipadClient_User_member(user, "modified_at")
    @@ LPLogipadClient_User_member(user, "modified_by")
    @@ LPLogipadClient_User_member(user, "last_login_at")
    @@ LPLogipadClient_User_member(user, "last_activity_at")
    @@ LPLogipadClient_User_member(user, "last_document_service_activity")
    @@ LPLogipadClient_User_member(user, "last_eform_service_activity")
    @@ LPLogipadClient_User_member(user, "last_briefing_service_activity")
    @@ LPLogipadClient_User_member(user, "name")
    @@ LPLogipadClient_User_member(user, "type")
    @@ LPLogipadClient_User_member(user, "full_name")
    @@ LPLogipadClient_User_member(user, "email")
    @@ LPLogipadClient_User_member(user, "three_lc")
    @@ LPLogipadClient_User_member(user, "department")
    @@ LPLogipadClient_User_member(user, "description")

\* LPLogipadClient::User::toJson
LPLogipadClient_User_toJson(user) ==
    JObj(("guid" :> JStr(user.guid))
         @@ LPLogipadClient_User_optionalMembers(user)
         @@ ("is_active" :> JBool(user.is_active))
         @@ ("is_reportable" :> JBool(user.is_reportable)))

\* LPLogipadClient::getAllUsers: the body of the loop over a top-level array
LPLogipadClient_mapArrayEntry(userJson) ==
    LET guid == IF contains(userJson, "guid")
                THEN get_string(userJson.o["guid"])
                ELSE [exc |-> NoExc, v |-> ""]
        created_at == OptionalString(userJson, "created_at")
        created_by == OptionalString(userJson, "created_by")
        modified_at == OptionalString(userJson, "modified_at")
        modified_by == OptionalString(userJson, "modified_by")
        last_login_at == OptionalString(userJson, "last_login_at")
        last_activity_at == OptionalString(userJson, "last_activity_at")
        last_document_service_activity == OptionalString(userJson, "last_document_service_activity")
        last_eform_service_activity == OptionalString(userJson, "last_eform_service_activity")
        last_briefing_service_activity == OptionalString(userJson, "last_briefing_service_activity")
        name == OptionalString(userJson, "name")
        type == OptionalString(userJson, "type")
        full_name == OptionalString(userJson, "full_name")
        email == OptionalString(userJson, "email")
        three_lc == OptionalString(userJson, "three_lc")
        department == OptionalString(userJson, "department")
        description == OptionalString(userJson, "description")
        is_active == BoolOrDefault(userJson, "is_active", TRUE)
        is_reportable == BoolOrDefault(userJson, "is_reportable", FALSE)
        steps == <<guid, created_at, created_by, modified_at,
                   modified_by, last_login_at, last_activity_at, last_document_service_activity,
                   last_eform_service_activity, last_briefing_service_activity, name, type,
                   full_name, email, three_lc, department,
                   description, is_active, is_reportable>>
    IN  [exc |-> FirstExc(steps),
         user |-> [guid |-> guid.v,
                  created_at |-> created_at.v,
                  created_by |-> created_by.v,
                  modified_at |-> modified_at.v,
                  modified_by |-> modified_by.v,
                  last_login_at |-> last_login_at.v,
                  last_activity_at |-> last_activity_at.v,
                  last_document_service_activity |-> last_document_service_activity.v,
                  last_eform_service_activity |-> last_eform_service_activity.v,
                  last_briefing_service_activity |-> last_briefing_service_activity.v,
                  name |-> name.v,
                  type |-> type.v,
                  full_name |-> full_name.v,
                  email |-> email.v,
                  three_lc |-> three_lc.v,
                  department |-> department.v,
                  description |-> description.v,
                  is_active |-> is_active.v,
                  is_reportable |-> is_reportable.v]]

\* LPLogipadClient::getAllUsers: the body of the loop over the "users" array
LPLogipadClient_mapNestedEntry(userJson) ==
    LET guid == IF contains(userJson, "guid")
                THEN get_string(userJson.o["guid"])
                ELSE [exc |-> NoExc, v |-> ""]
        created_at == OptionalString(userJson, "created_at")
        created_by == OptionalString(userJson, "created_by")
        modified_at == OptionalString(userJson, "modified_at")
        modified_by == OptionalString(userJson, "modified_by")
        last_login_at == OptionalString(userJson, "last_login_at")
        last_activity_at == OptionalString(userJson, "last_activity_at")
        last_document_service_activity == OptionalString(userJson, "last_document_service_activity")
        last_eform_service_activity == OptionalString(userJson, "last_eform_service_activity")
        last_briefing_service_activity == OptionalString(userJson, "last_briefing_service_activity")
        name == OptionalString(userJson, "name")
        type == OptionalString(userJson, "type")
        full_name == OptionalString(userJson, "full_name")
        email == OptionalString(userJson, "email")
        three_lc == OptionalString(userJson, "three_lc")
        department == OptionalString(userJson, "department")
        description == OptionalString(userJson, "description")
        is_active == BoolOrDefault(userJson, "is_active", TRUE)
        is_reportable == BoolOrDefault(userJson, "is_reportable", FALSE)
        steps == <<guid, created_at, created_by, modified_at,
                   modified_by, last_login_at, last_activity_at, last_document_service_activity,
                   last_eform_service_activity, last_briefing_service_activity, name, type,
                   full_name, email, three_lc, department,
                   description, is_active, is_reportable>>
    IN  [exc |-> FirstExc(steps),
         user |-> [guid |-> guid.v,
                  created_at |-> created_at.v,
                  created_by |-> created_by.v,
                  modified_at |-> modified_at.v,
                  modified_by |-> modified_by.v,
                  last_login_at |-> last_login_at.v,
                  last_activity_at |-> last_activity_at.v,
                  last_document_service_activity |-> last_document_service_activity.v,
                  last_eform_service_activity |-> last_eform_service_activity.v,
                  last_briefing_service_activity |-> last_briefing_service_activity.v,
                  name |-> name.v,
                  type |-> type.v,
                  full_name |-> full_name.v,
                  email |-> email.v,
                  three_lc |-> three_lc.v,
                  department |-> department.v,
                  description |-> description.v,
                  is_active |-> is_active.v,
                  is_reportable |-> is_reportable.v]]

RECURSIVE LPLogipadClient_arrayLoop(_, _)
\* the loop: entries still to map, and the collection so far; an exception
\* ends it with the entries pushed before still in the collection
LPLogipadClient_arrayLoop(entries, acc) ==
    IF entries = <<>>
    THEN [exc |-> NoExc, users |-> acc]
    ELSE LET m == LPLogipadClient_mapArrayEntry(Head(entries))
         IN  IF m.exc # NoExc
             THEN [exc |-> m.exc, users |-> acc]
             ELSE LPLogipadClient_arrayLoop(Tail(entries), Append(acc, m.user))

RECURSIVE LPLogipadClient_nestedLoop(_, _)
\* the loop: entries still to map, and the collection so far; an exception
\* ends it with the entries pushed before still in the collection
LPLogipadClient_nestedLoop(entries, acc) ==
    IF entries = <<>>
    THEN [exc |-> NoExc, users |-> acc]
    ELSE LET m == LPLogipadClient_mapNestedEntry(Head(entries))
         IN  IF m.exc # NoExc
             THEN [exc |-> m.exc, users |-> acc]
             ELSE LPLogipadClient_nestedLoop(Tail(entries), Append(acc, m.user))

\* LPLogipadClient::getAllUsers from the parse on: how a 200 body is mapped
LPLogipadClient_getAllUsers_parse(self, body, w) ==
    LET p == parse(body)
        json == p.v
    IN  IF p.exc # NoExc
        THEN UsersOutcome(self, <<>>, "false", w)
        ELSE IF is_array(json)
        THEN LET l == LPLogipadClient_arrayLoop(json.a, <<>>)
             IN  UsersOutcome(self, l.users,
                              IF l.exc # NoExc THEN "false" ELSE "true", w)
        ELSE IF is_object(json) /\ contains(json, "users")
                /\ is_array(json.o["users"])
        THEN LET l == LPLogipadClient_nestedLoop(json.o["users"].a, <<>>)
             IN  UsersOutcome(self, l.users,
                              IF l.exc # NoExc THEN "false" ELSE "true", w)
        ELSE UsersOutcome(self, <<>>, "true", w)

\* LPLogipadClient::getAllUsers from the GET on
LPLogipadClient_getAllUsers_request(self, apiHost, apiPort, res) ==
    LET req == UsersRequest(apiHost, apiPort, self.m_accessToken)
        w == <<Exchange(req, res)>>
    IN  IF res.received /\ res.status = 200
        THEN LPLogipadClient_getAllUsers_parse(self, res.body, w)
        ELSE UsersOutcome(self, <<>>, "false", w)

\* LPLogipadClient::getAllUsers: `usersIn` is the caller's collection (cleared
\* first), res the answer to GET /users, should it be sent
LPLogipadClient_getAllUsers(self, usersIn, apiHost, apiPort, res) ==
    IF self.m_accessToken = ""
    THEN UsersOutcome(self, <<>>, "false", <<>>)
    ELSE LPLogipadClient_getAllUsers_request(self, apiHost, apiPort, res)

(***************************************************************************)
(* Accessors                                                               *)
(***************************************************************************)
\* getAccessToken() of the three classes
getAccessToken(self) == self.m_accessToken

\* isAuthenticated() of the three classes
isAuthenticated(self) == self.m_accessToken # ""

\* KeycloakClient::getLastError()
getLastError(self) == self.m_lastError

(***************************************************************************)
(* Inputs: constructor arguments, call arguments and server answers        *)
(***************************************************************************)
Usernames == {"", "admin", "sysadm"}

\* constructor arguments of the demo callers
DemoCredentials == {<<"sysadm", "pw">>}

\* one credential pair of each kind: either part empty, or both given
SomeCredentials == {<<"", "pw">>, <<"admin", "">>, <<"admin", "pw">>}

Passwords == {"", "pw"}

ApiHosts == {"identity.demo.prod.logipad.net"}

ApiPorts == {443}

Realms == {"Logipad"}

\* bodies a token endpoint (or whatever answers in its place) may send
TokenBodies ==
    {Body("{\"access_token\":\"abc\"}", JObj([access_token |-> JStr("abc")])),
     Body("{\"access_token\":\"xyz\",\"token_type\":\"Bearer\"}",
          JObj([access_token |-> JStr("xyz"), token_type |-> JStr("Bearer")])),
     Body("{\"access_token\":\"\"}", JObj([access_token |-> JStr("")])),
     Body("{\"access_token\":null}", JObj([access_token |-> JNull])),
     Body("{\"token_type\":\"Bearer\"}", JObj([token_type |-> JStr("Bearer")])),
     Body("[]", JArr(<<>>)),
     Body("null", JNull),
     Body("<html>", Invalid),
     Body("", Invalid)}

TokenResults ==
    {NoResult}
    \cup {Result(200, b) : b \in TokenBodies}
    \cup {Result(401, Body("{\"error\":\"invalid_grant\"}",
                          JObj([error |-> JStr("invalid_grant")]))),
          Result(201, Body("{\"access_token\":\"abc\"}",
                          JObj([access_token |-> JStr("abc")]))),
          Result(500, Body("", Invalid))}

CreateResults ==
    {NoResult,
     Result(201, Body("", Invalid)),
     Result(200, Body("", Invalid)),
     Result(409, Body("{\"errorMessage\":\"User exists with same username\"}",
                      JObj([errorMessage |-> JStr("User exists with same username")]))),
     Result(409, Body("", Invalid)),
     Result(400, Body("{\"errorMessage\":\"Invalid email\"}",
                      JObj([errorMessage |-> JStr("Invalid email")]))),
     Result(400, Body("{\"errorMessage\":7}", JObj([errorMessage |-> JNum(7)]))),
     Result(401, Body("{\"error\":\"HTTP 401 Unauthorized\"}",
                      JObj([error |-> JStr("HTTP 401 Unauthorized")]))),
     Result(403, Body("", Invalid)),
     Result(500, Body("Service Unavailable", Invalid))}

UserInfo(username, email, password) ==
    [username |-> username, email |-> email, firstName |-> "Test",
     lastName |-> "User", password |-> password,
     enabled |-> TRUE, emailVerified |-> TRUE]

UserInfos ==
    {UserInfo("aaaaa", "testuser@test.com", "testpassword"),
     UserInfo("aaaaa", "testuser@test.com", "secret"),
     UserInfo("aaaaa", "testuser@test.com", ""),
     UserInfo("", "testuser@test.com", "testpassword"),
     UserInfo("aaaaa", "", "testpassword"),
     UserInfo("", "", "")}

\* entries of a user array in a directory response
UserEntries ==
    {JObj([guid |-> JStr("g1")]),
     JObj([guid |-> JStr("g2"), email |-> JStr("a@b.com"), is_active |-> JBool(FALSE)]),
     JObj([name |-> JNull, is_reportable |-> JBool(TRUE)]),
     JObj([guid |-> JStr("g5"), is_active |-> JNull])}

\* an entry with every field of User set
FullEntry ==
    JObj([guid |-> JStr("g3"),
          created_at |-> JStr("2024-01-01"), created_by |-> JStr("root"),
          modified_at |-> JStr("2024-02-02"), modified_by |-> JStr("ops"),
          last_login_at |-> JStr("2024-03-03"),
          last_activity_at |-> JStr("2024-04-04"),
          last_document_service_activity |-> JStr("2024-05-05"),
          last_eform_service_activity |-> JStr("2024-06-06"),
          last_briefing_service_activity |-> JStr("2024-07-07"),
          name |-> JStr("jdoe"), type |-> JStr("pilot"),
          full_name |-> JStr("John Doe"), email |-> JStr("j@d.com"),
          three_lc |-> JStr("JDO"), department |-> JStr("OPS"),
          description |-> JStr(""),
          is_active |-> JBool(TRUE), is_reportable |-> JBool(FALSE)])

\* user arrays with entries of other kinds: every field set, a field of the
\* wrong type, an entry that is no object, a null is_reportable
OtherUserArrays ==
    {<<FullEntry>>,
     <<FullEntry, JObj([guid |-> JStr("g4"), email |-> JNum(7)])>>,
     <<JObj([guid |-> JNum(6)])>>,
     <<JNum(5)>>,
     <<JObj([guid |-> JStr("g7"), is_reportable |-> JNull])>>}

SeqsUpTo(S, n) == UNION {[1..k -> S] : k \in 0..n}

UserArrays == SeqsUpTo(UserEntries, MaxUsers) \cup OtherUserArrays

\* documents a directory may answer GET /users with; getAllUsers reads the
\* text of a body through parse only, so the text of a document is left open
UsersBodies ==
    {Body("json", JArr(a)) : a \in UserArrays}
    \cup {Body("json", JObj([users |-> JArr(a)])) : a \in UserArrays}
    \cup {Body("json", JObj([users |-> JStr("none")])),
          Body("json", JObj([total |-> JNum(0)])),
          Body("json", JStr("ok")),
          Body("<html>", Invalid),
          Body("", Invalid)}

UsersResults ==
    {NoResult}
    \cup {Result(200, b) : b \in UsersBodies}
    \cup {Result(401, Body("", Invalid)),
          Result(201, Body("json", JArr(<<JObj([guid |-> JStr("g1")])>>))),
          Result(500, Body("<html>", Invalid))}

NoArgs == [none |-> TRUE]

(***************************************************************************)
(* The state machine                                                       *)
(***************************************************************************)
\* KeycloakClient::KeycloakClient
KeycloakClient_new(realm, clientId, username, password) ==
    [m_realm |-> realm, m_clientId |-> clientId,
     m_username |-> username, m_password |-> password,
     m_accessToken |-> "", m_lastError |-> <<>>]

\* LogipadClient::LogipadClient
LogipadClient_new(realm, clientId, username, password) ==
    [m_realm |-> realm, m_clientId |-> clientId,
     m_username |-> username, m_password |-> password, m_accessToken |-> ""]

\* LPLogipadClient::LPLogipadClient
LPLogipadClient_new(realm, clientId, username, password) ==
    [m_realm |-> realm, m_clientId |-> clientId,
     m_username |-> username, m_password |-> password, m_accessToken |-> ""]

\* the three objects as their constructors leave them, with credentials
\* from the given sets; the caller's collections start empty
InitWith(kcCredentials, lcCredentials, lpCredentials) ==
    /\ \E c \in kcCredentials : kc = KeycloakClient_new("master", "admin-cli", c[1], c[2])
    /\ \E c \in lcCredentials : lc = LogipadClient_new("Logipad", "lpclient", c[1], c[2])
    /\ \E c \in lpCredentials : lp = LPLogipadClient_new("Logipad", "lpclient", c[1], c[2])
    /\ users = <<>>
    /\ lpUsers = <<>>
    /\ call = "constructor"
    /\ args = NoArgs
    /\ pre = ""
    /\ ret = "none"
    /\ wire = <<>>
    /\ document = JNull

\* KeycloakClient::authenticate()
KcAuthenticate ==
    \E res \in TokenResults :
        \E o \in {KeycloakClient_authenticate(kc, res)} :
            /\ kc' = o.self
            /\ call' = "KeycloakClient::authenticate"
            /\ args' = NoArgs
            /\ pre' = kc.m_accessToken
            /\ ret' = o.ret
            /\ wire' = o.wire
            /\ UNCHANGED <<lc, users, lp, lpUsers, document>>

\* KeycloakClient::createUser(userInfo, realm)
KcCreateUser ==
    \E userInfo \in UserInfos, realm \in Realms,
       tokenRes \in TokenResults, res \in CreateResults :
        \E o \in {KeycloakClient_createUser(kc, userInfo, realm, tokenRes, res)} :
            /\ kc' = o.self
            /\ call' = "KeycloakClient::createUser"
            /\ args' = [userInfo |-> userInfo, realm |-> realm]
            /\ pre' = kc.m_accessToken
            /\ ret' = o.ret
            /\ wire' = o.wire
            /\ UNCHANGED <<lc, users, lp, lpUsers, document>>

\* KeycloakClient::setCredentials(username, password)
KcSetCredentials ==
    \E u \in Usernames, p \in Passwords :
        \E o \in {KeycloakClient_setCredentials(kc, u, p)} :
            /\ kc' = o.self
            /\ call' = "KeycloakClient::setCredentials"
            /\ args' = [username |-> u, password |-> p]
            /\ pre' = kc.m_accessToken
            /\ ret' = o.ret
            /\ wire' = o.wire
            /\ UNCHANGED <<lc, users, lp, lpUsers, document>>

\* LogipadClient::authenticate()
LcAuthenticate ==
    \E res \in TokenResults :
        \E o \in {LogipadClient_authenticate(lc, res)} :
            /\ lc' = o.self
            /\ call' = "LogipadClient::authenticate"
            /\ args' = NoArgs
            /\ pre' = lc.m_accessToken
            /\ ret' = o.ret
            /\ wire' = o.wire
            /\ UNCHANGED <<users, kc, lp, lpUsers, document>>

\* LogipadClient::getAllUsers(users, apiHost, apiPort)
LcGetAllUsers ==
    \E res \in UsersResults, apiHost \in ApiHosts, apiPort \in ApiPorts :
        \E o \in {LogipadClient_getAllUsers(lc, users, apiHost, apiPort, res)} :
            /\ lc' = o.self
            /\ users' = o.users
            /\ call' = "LogipadClient::getAllUsers"
            /\ args' = [apiHost |-> apiHost, apiPort |-> apiPort]
            /\ pre' = lc.m_accessToken
            /\ ret' = o.ret
            /\ wire' = o.wire
            /\ UNCHANGED <<kc, lp, lpUsers, document>>

\* LPLogipadClient::authenticate()
LpAuthenticate ==
    \E res \in TokenResults :
        \E o \in {LPLogipadClient_authenticate(lp, res)} :
            /\ lp' = o.self
            /\ call' = "LPLogipadClient::authenticate"
            /\ args' = NoArgs
            /\ pre' = lp.m_accessToken
            /\ ret' = o.ret
            /\ wire' = o.wire
            /\ UNCHANGED <<lpUsers, kc, lc, users, document>>

\* LPLogipadClient::getAllUsers(users, apiHost, apiPort)
LpGetAllUsers ==
    \E res \in UsersResults, apiHost \in ApiHosts, apiPort \in ApiPorts :
        \E o \in {LPLogipadClient_getAllUsers(lp, lpUsers, apiHost, apiPort, res)} :
            /\ lp' = o.self
            /\ lpUsers' = o.users
            /\ call' = "LPLogipadClient::getAllUsers"
            /\ args' = [apiHost |-> apiHost, apiPort |-> apiPort]
            /\ pre' = lp.m_accessToken
            /\ ret' = o.ret
            /\ wire' = o.wire
            /\ UNCHANGED <<kc, lc, users, document>>

\* KeycloakClient::createUser(userInfo, realm), the records and the answers
\* drawn from the given sets
KcCreateUserWith(records, tokenAnswers, answers) ==
    \E userInfo \in records, realm \in Realms,
       tokenRes \in tokenAnswers, res \in answers :
        \E o \in {KeycloakClient_createUser(kc, userInfo, realm, tokenRes, res)} :
            /\ kc' = o.self
            /\ call' = "KeycloakClient::createUser"
            /\ args' = [userInfo |-> userInfo, realm |-> realm]
            /\ pre' = kc.m_accessToken
            /\ ret' = o.ret
            /\ wire' = o.wire
            /\ UNCHANGED <<lc, users, lp, lpUsers, document>>

\* KeycloakClient::setCredentials(username, password), the credentials drawn
\* from the given set
KcSetCredentialsWith(credentials) ==
    \E c \in credentials :
        \E o \in {KeycloakClient_setCredentials(kc, c[1], c[2])} :
            /\ kc' = o.self
            /\ call' = "KeycloakClient::setCredentials"
            /\ args' = [username |-> c[1], password |-> c[2]]
            /\ pre' = kc.m_accessToken
            /\ ret' = o.ret
            /\ wire' = o.wire
            /\ UNCHANGED <<lc, users, lp, lpUsers, document>>

\* LogipadClient::getAllUsers(users, apiHost, apiPort), the answers drawn from
\* the given set
LcGetAllUsersWith(answers) ==
    \E res \in answers, apiHost \in ApiHosts, apiPort \in ApiPorts :
        \E o \in {LogipadClient_getAllUsers(lc, users, apiHost, apiPort, res)} :
            /\ lc' = o.self
            /\ users' = o.users
            /\ call' = "LogipadClient::getAllUsers"
            /\ args' = [apiHost |-> apiHost, apiPort |-> apiPort]
            /\ pre' = lc.m_accessToken
            /\ ret' = o.ret
            /\ wire' = o.wire
            /\ UNCHANGED <<kc, lp, lpUsers, document>>

\* the identity-provider client alone
InitKc == InitWith(Usernames \X Passwords, DemoCredentials, DemoCredentials)

NextKc == KcAuthenticate \/ KcCreateUser \/ KcSetCredentials

SpecKc == InitKc /\ [][NextKc]_vars

\* the namespaced directory client alone
InitLc == InitWith(DemoCredentials, SomeCredentials, DemoCredentials)

NextLc == LcAuthenticate \/ LcGetAllUsers

SpecLc == InitLc /\ [][NextLc]_vars

\* the non-namespaced directory client alone
InitLp == InitWith(DemoCredentials, DemoCredentials, SomeCredentials)

NextLp == LpAuthenticate \/ LpGetAllUsers

SpecLp == InitLp /\ [][NextLp]_vars

\* the two directory clients; the caller uses one of the classes and leaves
\* the other with the constructor's default (empty) credentials
DefaultCredentials == {<<"", "">>}

InitDir ==
    \/ InitWith(DemoCredentials, DemoCredentials, DefaultCredentials)
    \/ InitWith(DemoCredentials, DefaultCredentials, DemoCredentials)

NextDir == LcAuthenticate \/ LcGetAllUsers \/ LpAuthenticate \/ LpGetAllUsers

SpecDir == InitDir /\ [][NextDir]_vars

\* authentication and credentials of the three clients
InitAuth == InitWith(SomeCredentials, SomeCredentials, SomeCredentials)

NextAuth == KcAuthenticate \/ KcSetCredentials \/ LcAuthenticate \/ LpAuthenticate

SpecAuth == InitAuth /\ [][NextAuth]_vars

\* the identity-provider client and the directory client side by side, as
\* the demo caller uses them, with a few records and answers of each kind
OpsUserInfos ==
    {UserInfo("aaaaa", "testuser@test.com", "testpassword"),
     UserInfo("", "testuser@test.com", "testpassword")}

OpsTokenResults ==
    {NoResult,
     Result(200, Body("{\"access_token\":\"abc\"}", JObj([access_token |-> JStr("abc")]))),
     Result(200, Body("{\"access_token\":\"\"}", JObj([access_token |-> JStr("")]))),
     Result(401, Body("{\"error\":\"invalid_grant\"}",
                      JObj([error |-> JStr("invalid_grant")])))}

OpsCreateResults ==
    {NoResult,
     Result(201, Body("", Invalid)),
     Result(401, Body("{\"error\":\"HTTP 401 Unauthorized\"}",
                      JObj([error |-> JStr("HTTP 401 Unauthorized")]))),
     Result(403, Body("", Invalid)),
     Result(409, Body("", Invalid))}

OpsUsersResults ==
    {NoResult,
     Result(200, Body("json", JArr(<<JObj([guid |-> JStr("g1")])>>))),
     Result(200, Body("json", JObj([users |-> JArr(<<JObj([guid |-> JStr("g1")])>>)]))),
     Result(200, Body("<html>", Invalid)),
     Result(401, Body("", Invalid)),
     Result(403, Body("", Invalid))}

OpsCredentials == {<<"admin", "pw">>}

InitOps == InitWith(DemoCredentials, DemoCredentials, DefaultCredentials)

NextOps ==
    \/ KcAuthenticate
    \/ KcCreateUserWith(OpsUserInfos, OpsTokenResults, OpsCreateResults)
    \/ KcSetCredentialsWith(OpsCredentials)
    \/ LcAuthenticate
    \/ LcGetAllUsersWith(OpsUsersResults)

SpecOps == InitOps /\ [][NextOps]_vars

\* User::toJson() of a record of the caller's collection
LcUserToJson ==
    \E i \in DOMAIN users :
        /\ document' = LogipadClient_User_toJson(users[i])
        /\ call' = "LogipadClient::User::toJson"
        /\ args' = [index |-> i]
        /\ pre' = lc.m_accessToken
        /\ ret' = "document"
        /\ wire' = <<>>
        /\ UNCHANGED <<kc, lc, users, lp, lpUsers>>

\* User::toJson() of a record of the caller's collection
LpUserToJson ==
    \E i \in DOMAIN lpUsers :
        /\ document' = LPLogipadClient_User_toJson(lpUsers[i])
        /\ call' = "LPLogipadClient::User::toJson"
        /\ args' = [index |-> i]
        /\ pre' = lp.m_accessToken
        /\ ret' = "document"
        /\ wire' = <<>>
        /\ UNCHANGED <<kc, lc, users, lp, lpUsers>>

\* a User the caller fills in: no optional member set but those given
User(guid, name, description, is_active, is_reportable) ==
    [guid |-> guid,
     created_at |-> nullopt, created_by |-> nullopt,
     modified_at |-> nullopt, modified_by |-> nullopt,
     last_login_at |-> nullopt, last_activity_at |-> nullopt,
     last_document_service_activity |-> nullopt,
     last_eform_service_activity |-> nullopt,
     last_briefing_service_activity |-> nullopt,
     name |-> name, type |-> nullopt, full_name |-> nullopt,
     email |-> nullopt, three_lc |-> nullopt, department |-> nullopt,
     description |-> description,
     is_active |-> is_active, is_reportable |-> is_reportable]

\* collections the caller builds itself (User and Users are public structs):
\* records with and without a guid, with an empty string as a value, and
\* with each value of the two booleans, which have no default initializer
CallerUsers ==
    {<<>>}
    \cup {<<User("", nullopt, nullopt, a, r)>> : a \in BOOLEAN, r \in BOOLEAN}
    \cup {<<User("g8", some("pilot one"), some(""), FALSE, TRUE),
            User("g9", nullopt, some("second"), TRUE, TRUE)>>}

\* answers to GET /users with records of each kind
UserListings ==
    {Result(200, Body("json", JArr(<<FullEntry>>))),
     Result(200, Body("json",
                      JObj([users |-> JArr(<<JObj([guid |-> JStr("g2"),
                                                   email |-> JStr("a@b.com"),
                                                   is_active |-> JBool(FALSE)]),
                                             JObj([name |-> JNull,
                                                   is_reportable |-> JBool(TRUE)])>>)]))),
     Result(200, Body("json", JArr(<<JObj([guid |-> JStr("g1")]),
                                     JObj([guid |-> JStr("g5"),
                                           is_active |-> JNull])>>))),
     Result(500, Body("<html>", Invalid))}

\* the records of the directory clients: listed, or filled in by the caller,
\* and serialized
InitUser ==
    /\ kc = KeycloakClient_new("master", "admin-cli", "sysadm", "pw")
    /\ lc = LogipadClient_new("Logipad", "lpclient", "sysadm", "pw")
    /\ lp = LPLogipadClient_new("Logipad", "lpclient", "", "")
    /\ users \in CallerUsers
    /\ lpUsers \in CallerUsers
    /\ call = "constructor"
    /\ args = NoArgs
    /\ pre = ""
    /\ ret = "none"
    /\ wire = <<>>
    /\ document = JNull

NextUser ==
    \/ LcAuthenticate
    \/ LcGetAllUsersWith(UserListings)
    \/ LcUserToJson
    \/ LpUserToJson

SpecUser == InitUser /\ [][NextUser]_vars

(***************************************************************************)
(* Properties                                                              *)
(***************************************************************************)
\* the answer the last call got to its first request (none sent: no answer)
FirstAnswer == IF wire = <<>> THEN NoResult ELSE wire[1].res

\* the body of an answer is a JSON object with the key access_token
HasAccessToken(res) ==
    res.body.doc.t = "object" /\ "access_token" \in DOMAIN res.body.doc.o

\* the last call sent a token request
SentTokenRequest ==
    \E i \in DOMAIN wire : wire[i].req.path[1] = "/realms/"

\* the last call sent a user-creation request
SentCreateRequest ==
    \E i \in DOMAIN wire : wire[i].req.path[1] = "/admin/realms/"

ValidRecord(userInfo) == userInfo.username # "" /\ userInfo.email # ""

\* C1: whenever KeycloakClient::authenticate() returns true, the client is
\* authenticated immediately afterwards: isAuthenticated() is true and
\* getAccessToken() is non-empty.
C1_AuthenticatedAfterTrue ==
    (call = "KeycloakClient::authenticate" /\ ret = "true")
        => (isAuthenticated(kc) /\ getAccessToken(kc) # "")

\* C2: no exception escapes a public operation of either client, whatever
\* the server answers: every call ends by returning.
C2_NoExceptionEscapes ==
    ret \in {"none", "void", "true", "false"}

\* C3: createUser() with an empty username or an empty email returns false
\* and sends no request at all, whether or not a token is held at the call.
C3_InvalidRecordSendsNothing ==
    (call = "KeycloakClient::createUser" /\ ~ValidRecord(args.userInfo))
        => (ret = "false" /\ wire = <<>>)

\* C4: LogipadClient::authenticate() mirrors KeycloakClient::authenticate():
\* with the same credentials and the same server answer it ends the same way
\* and leaves the same token.
C4_DirectoryMirrorsIdentityProvider ==
    call = "LogipadClient::authenticate"
        => LET k == KeycloakClient_authenticate(
                        [KeycloakClient_new(lc.m_realm, lc.m_clientId,
                                            lc.m_username, lc.m_password)
                            EXCEPT !.m_accessToken = pre],
                        FirstAnswer)
           IN  /\ ret = k.ret
               /\ getAccessToken(lc) = getAccessToken(k.self)

\* C5: KeycloakClient::authenticate() answered by no response, by a status
\* other than 200, or by a 200 body without access_token returns false and
\* leaves the token empty, whatever token was held before the call.
C5_FailedAuthenticateClearsToken ==
    (/\ call = "KeycloakClient::authenticate"
     /\ wire # <<>>
     /\ \/ ~FirstAnswer.received
        \/ FirstAnswer.status # 200
        \/ ~HasAccessToken(FirstAnswer))
        => (ret = "false" /\ getAccessToken(kc) = "" /\ ~isAuthenticated(kc))

\* a token was held, and the re-authentication was refused with status 401
C5_Witness ==
    /\ call = "KeycloakClient::authenticate"
    /\ pre # ""
    /\ wire # <<>>
    /\ FirstAnswer.received
    /\ FirstAnswer.status = 401
    /\ ret = "false"
    /\ getAccessToken(kc) = ""

\* C6: authenticate() with an empty username or an empty password returns
\* false, sends no request and leaves the token empty, on the
\* identity-provider client and on both directory clients.
C6_EmptyCredentialsSendNothing ==
    /\ (call = "KeycloakClient::authenticate"
        /\ (kc.m_username = "" \/ kc.m_password = ""))
           => (ret = "false" /\ wire = <<>> /\ getAccessToken(kc) = "")
    /\ (call = "LogipadClient::authenticate"
        /\ (lc.m_username = "" \/ lc.m_password = ""))
           => (ret = "false" /\ wire = <<>> /\ getAccessToken(lc) = "")
    /\ (call = "LPLogipadClient::authenticate"
        /\ (lp.m_username = "" \/ lp.m_password = ""))
           => (ret = "false" /\ wire = <<>> /\ getAccessToken(lp) = "")

\* authenticate() was called on the identity-provider client with a username
\* and no password
C6_Witness ==
    /\ call = "KeycloakClient::authenticate"
    /\ kc.m_username # ""
    /\ kc.m_password = ""
    /\ ret = "false"
    /\ wire = <<>>

\* C7: KeycloakClient::authenticate() answered by a 200 whose body holds a
\* string access_token T returns true and stores exactly T, and a createUser()
\* called while a token is held (so that it does not authenticate again)
\* leaves that token as it is.
C7_TokenStoredAndKept ==
    /\ [](( /\ call = "KeycloakClient::authenticate"
            /\ wire # <<>>
            /\ FirstAnswer.received
            /\ FirstAnswer.status = 200
            /\ HasAccessToken(FirstAnswer)
            /\ FirstAnswer.body.doc.o["access_token"].t = "string")
          => (/\ ret = "true"
              /\ getAccessToken(kc) = FirstAnswer.body.doc.o["access_token"].s))
    /\ [][(call' = "KeycloakClient::createUser" /\ getAccessToken(kc) # "")
             => getAccessToken(kc') = getAccessToken(kc)]_vars

\* createUser() was refused with 401 while the token xyz was held, and xyz is
\* still held
C7_Witness ==
    /\ call = "KeycloakClient::createUser"
    /\ pre = "xyz"
    /\ wire # <<>>
    /\ FirstAnswer.received
    /\ FirstAnswer.status = 401
    /\ getAccessToken(kc) = "xyz"

\* C8: getAllUsers() called while the token is empty returns false, leaves
\* the caller's collection empty, sends no request and does not authenticate
\* (the token is still empty), on both directory clients.
C8_NoTokenNoListing ==
    /\ (call = "LogipadClient::getAllUsers" /\ pre = "")
           => (/\ ret = "false"
               /\ users = <<>>
               /\ wire = <<>>
               /\ getAccessToken(lc) = "")
    /\ (call = "LPLogipadClient::getAllUsers" /\ pre = "")
           => (/\ ret = "false"
               /\ lpUsers = <<>>
               /\ wire = <<>>
               /\ getAccessToken(lp) = "")

\* getAllUsers() was called without a token on a client whose credentials are
\* both set
C8_Witness ==
    /\ call = "LogipadClient::getAllUsers"
    /\ pre = ""
    /\ lc.m_username # ""
    /\ lc.m_password # ""
    /\ ret = "false"

\* C9: createUser() called with no token held first authenticates; if that
\* succeeds, the creation request (of a valid record) carries the token just
\* obtained as its bearer; if it fails, createUser() returns false, sends no
\* creation request and getLastError() is "Not authenticated: " followed by
\* the error of authenticate().
C9_LazyAuthentication ==
    (call = "KeycloakClient::createUser" /\ pre = "")
        => LET a == KeycloakClient_authenticate(
                        [kc EXCEPT !.m_accessToken = ""], FirstAnswer)
           IN  /\ wire # <<>> => wire[1].req.path[1] = "/realms/"
               /\ (a.ret = "true" /\ ValidRecord(args.userInfo))
                      => /\ Len(wire) = 2
                         /\ wire[2].req.path[1] = "/admin/realms/"
                         /\ "Authorization" \in DOMAIN wire[2].req.headers
                         /\ wire[2].req.headers["Authorization"]
                                = <<"Bearer ", getAccessToken(a.self)>>
               /\ a.ret # "true"
                      => /\ ret = "false"
                         /\ ~SentCreateRequest
                         /\ getLastError(kc)
                                = <<"Not authenticated: ">> \o getLastError(a.self)

\* C10: createUser() with a valid record and a token held returns true if
\* and only if the answer has status 201; on 409 it returns false and
\* getLastError() names the username with "already exists"; on every other
\* status it returns false and getLastError() contains the status code.
C10_CreateUserByStatus ==
    (/\ call = "KeycloakClient::createUser"
     /\ pre # ""
     /\ ValidRecord(args.userInfo))
        => /\ Len(wire) = 1
           /\ wire[1].req.path[1] = "/admin/realms/"
           /\ ret = "true" <=> (FirstAnswer.received /\ FirstAnswer.status = 201)
           /\ (FirstAnswer.received /\ FirstAnswer.status = 409)
                  => /\ ret = "false"
                     /\ getLastError(kc)
                            = <<"User with username '", args.userInfo.username,
                                "' already exists">>
           /\ (FirstAnswer.received /\ FirstAnswer.status \notin {201, 409})
                  => /\ ret = "false"
                     /\ ToString(FirstAnswer.status) \in Range(getLastError(kc))

\* createUser() of a valid record, with a token held, was answered 409
C10_Witness ==
    /\ call = "KeycloakClient::createUser"
    /\ pre # ""
    /\ ValidRecord(args.userInfo)
    /\ FirstAnswer.received
    /\ FirstAnswer.status = 409
    /\ ret = "false"

\* the 14 optional string fields of User
OptionalFields ==
    {"created_at", "created_by", "modified_at", "modified_by", "last_login_at",
     "last_activity_at", "last_document_service_activity",
     "last_eform_service_activity", "last_briefing_service_activity", "name",
     "type", "full_name", "email", "three_lc", "department", "description"}

BooleanFields == {"is_active", "is_reportable"}

\* an answer carries a user array: at the top level, or under "users"
HasUserArray(res) ==
    \/ res.body.doc.t = "array"
    \/ /\ res.body.doc.t = "object"
       /\ "users" \in DOMAIN res.body.doc.o
       /\ res.body.doc.o["users"].t = "array"

\* the entries of the user array of an answer
Entries(res) ==
    IF res.body.doc.t = "array" THEN res.body.doc.a
    ELSE IF HasUserArray(res) THEN res.body.doc.o["users"].a
    ELSE <<>>

\* an entry has the key k
EntryHas(e, k) == e.t = "object" /\ k \in DOMAIN e.o

\* the guid an entry carries ("" when it carries none)
GuidOf(e) ==
    IF EntryHas(e, "guid") /\ e.o["guid"].t = "string" THEN e.o["guid"].s ELSE ""

\* every value of the entry has the type of its field: guid a string, the
\* optional fields strings or null, is_active and is_reportable booleans
WellTyped(e) ==
    /\ EntryHas(e, "guid") => e.o["guid"].t = "string"
    /\ \A k \in OptionalFields : EntryHas(e, k) => e.o[k].t \in {"string", "null"}
    /\ \A k \in BooleanFields : EntryHas(e, k) => e.o[k].t = "boolean"

\* the last call was getAllUsers() of the class, with a token held, and it
\* was answered with status 200
Listed(class) ==
    /\ call = class
    /\ wire # <<>>
    /\ FirstAnswer.received
    /\ FirstAnswer.status = 200

\* the collection has one record per entry of the answer, in the order of
\* the entries
OneRecordPerEntry(collection) ==
    /\ Len(collection) = Len(Entries(FirstAnswer))
    /\ \A i \in DOMAIN collection :
           collection[i].guid = GuidOf(Entries(FirstAnswer)[i])

\* C11: on HTTP 200 with a top-level array of user objects or an object with
\* a `users` array, getAllUsers() returns true and the collection has exactly
\* one record per entry of that array, in the array's order.
C11_OneRecordPerEntry ==
    /\ (Listed("LogipadClient::getAllUsers") /\ HasUserArray(FirstAnswer))
           => (ret = "true" /\ OneRecordPerEntry(users))
    /\ (Listed("LPLogipadClient::getAllUsers") /\ HasUserArray(FirstAnswer))
           => (ret = "true" /\ OneRecordPerEntry(lpUsers))

\* C11 as amended: the same, for the arrays whose entries are all well typed
\* (a string guid, strings or null in the optional fields, booleans in
\* is_active and is_reportable, each where present).
C11_OneRecordPerWellTypedEntry ==
    /\ (/\ Listed("LogipadClient::getAllUsers")
        /\ HasUserArray(FirstAnswer)
        /\ \A i \in DOMAIN Entries(FirstAnswer) : WellTyped(Entries(FirstAnswer)[i]))
           => (ret = "true" /\ OneRecordPerEntry(users))
    /\ (/\ Listed("LPLogipadClient::getAllUsers")
        /\ HasUserArray(FirstAnswer)
        /\ \A i \in DOMAIN Entries(FirstAnswer) : WellTyped(Entries(FirstAnswer)[i]))
           => (ret = "true" /\ OneRecordPerEntry(lpUsers))

\* {"users": [g2, g1]} was listed: two records, g2 first
C11_Witness ==
    /\ Listed("LogipadClient::getAllUsers")
    /\ FirstAnswer.body.doc.t = "object"
    /\ ret = "true"
    /\ Len(users) = 2
    /\ users[1].guid = "g2"
    /\ users[2].guid = "g1"

\* the optional string field k of a record is set if and only if the entry
\* holds a value other than null under k, and then to that value
OptionalFieldCopied(record, e, k) ==
    /\ record[k].has_value <=> (EntryHas(e, k) /\ e.o[k].t # "null")
    /\ record[k].has_value => (e.o[k].t = "string" /\ record[k].value = e.o[k].s)

\* C12: for every user entry and each of the 14 optional string fields, the
\* record mapped from the entry has the field set if and only if the entry
\* contains that field with a non-null value, and then with the same value;
\* no optional string field receives a default.
C12_OptionalFieldsCopied ==
    /\ Listed("LogipadClient::getAllUsers")
           => /\ Len(users) <= Len(Entries(FirstAnswer))
              /\ \A i \in DOMAIN users : \A k \in OptionalFields :
                     OptionalFieldCopied(users[i], Entries(FirstAnswer)[i], k)
    /\ Listed("LPLogipadClient::getAllUsers")
           => /\ Len(lpUsers) <= Len(Entries(FirstAnswer))
              /\ \A i \in DOMAIN lpUsers : \A k \in OptionalFields :
                     OptionalFieldCopied(lpUsers[i], Entries(FirstAnswer)[i], k)

\* an entry with an email, then an entry whose name is null, were mapped:
\* the email is set, the name is not
C12_Witness ==
    /\ Listed("LogipadClient::getAllUsers")
    /\ Len(users) = 2
    /\ users[1].email.has_value
    /\ users[1].email.value = "a@b.com"
    /\ EntryHas(Entries(FirstAnswer)[2], "name")
    /\ ~users[2].name.has_value

\* the boolean field k of a record is the entry's value when the entry has
\* the key k, and the default otherwise
BooleanFieldCopied(record, e, k, default) ==
    IF EntryHas(e, k)
    THEN e.o[k].t = "boolean" /\ record[k] = e.o[k].b
    ELSE record[k] = default

\* C13: for every user entry, the record's is_active is the entry's is_active
\* when the key is present and true when it is absent, and the record's
\* is_reportable is the entry's is_reportable when present and false when
\* absent.
C13_BooleanDefaults ==
    /\ Listed("LogipadClient::getAllUsers")
           => /\ Len(users) <= Len(Entries(FirstAnswer))
              /\ \A i \in DOMAIN users :
                     /\ BooleanFieldCopied(users[i], Entries(FirstAnswer)[i],
                                           "is_active", TRUE)
                     /\ BooleanFieldCopied(users[i], Entries(FirstAnswer)[i],
                                           "is_reportable", FALSE)
    /\ Listed("LPLogipadClient::getAllUsers")
           => /\ Len(lpUsers) <= Len(Entries(FirstAnswer))
              /\ \A i \in DOMAIN lpUsers :
                     /\ BooleanFieldCopied(lpUsers[i], Entries(FirstAnswer)[i],
                                           "is_active", TRUE)
                     /\ BooleanFieldCopied(lpUsers[i], Entries(FirstAnswer)[i],
                                           "is_reportable", FALSE)

\* an entry with is_active false and no is_reportable, then an entry with
\* is_reportable true and no is_active, were mapped
C13_Witness ==
    /\ Listed("LogipadClient::getAllUsers")
    /\ Len(users) = 2
    /\ EntryHas(Entries(FirstAnswer)[1], "is_active")
    /\ ~EntryHas(Entries(FirstAnswer)[1], "is_reportable")
    /\ users[1].is_active = FALSE
    /\ users[1].is_reportable = FALSE
    /\ ~EntryHas(Entries(FirstAnswer)[2], "is_active")
    /\ users[2].is_active = TRUE
    /\ users[2].is_reportable = TRUE

\* C14: every record in the collection produced by getAllUsers() carries the
\* guid of its source entry, and that guid is not empty: no record without a
\* guid ever appears in the collection.
C14_GuidAlwaysPresent ==
    /\ Listed("LogipadClient::getAllUsers")
           => \A i \in DOMAIN users :
                  /\ i <= Len(Entries(FirstAnswer))
                  /\ users[i].guid = GuidOf(Entries(FirstAnswer)[i])
                  /\ users[i].guid # ""
    /\ Listed("LPLogipadClient::getAllUsers")
           => \A i \in DOMAIN lpUsers :
                  /\ i <= Len(Entries(FirstAnswer))
                  /\ lpUsers[i].guid = GuidOf(Entries(FirstAnswer)[i])
                  /\ lpUsers[i].guid # ""

\* C15: after a getAllUsers() call that returns true the caller's collection
\* holds exactly the records of that call's response, one per entry,
\* whatever it held before the call; a second successful call with the same
\* response leaves the collection as the first left it.
C15_CollectionReplaced ==
    /\ [][(call' = "LogipadClient::getAllUsers" /\ ret' = "true")
             => /\ Len(users') = Len(Entries(wire'[1].res))
                /\ \A i \in DOMAIN users' :
                       users'[i].guid = GuidOf(Entries(wire'[1].res)[i])
                /\ (/\ call = "LogipadClient::getAllUsers"
                    /\ ret = "true"
                    /\ wire[1].res = wire'[1].res)
                       => users' = users]_vars
    /\ [][(call' = "LPLogipadClient::getAllUsers" /\ ret' = "true")
             => /\ Len(lpUsers') = Len(Entries(wire'[1].res))
                /\ \A i \in DOMAIN lpUsers' :
                       lpUsers'[i].guid = GuidOf(Entries(wire'[1].res)[i])
                /\ (/\ call = "LPLogipadClient::getAllUsers"
                    /\ ret = "true"
                    /\ wire[1].res = wire'[1].res)
                       => lpUsers' = lpUsers]_vars

\* a listing answered with the one entry g1 returned true and left one record
C15_Witness ==
    /\ Listed("LogipadClient::getAllUsers")
    /\ ret = "true"
    /\ Len(Entries(FirstAnswer)) = 1
    /\ Len(users) = 1
    /\ users[1].guid = "g1"

\* C16: getAllUsers() with a token held returns false when no response is
\* received, when the status is not 200, and when the body of a 200 answer
\* is not JSON.
C16_ListingFailures ==
    (/\ call \in {"LogipadClient::getAllUsers", "LPLogipadClient::getAllUsers"}
     /\ pre # ""
     /\ \/ ~FirstAnswer.received
        \/ FirstAnswer.status # 200
        \/ FirstAnswer.body.doc = Invalid)
        => (ret = "false" /\ Len(wire) = 1)

\* a listing with a token held was answered 200 with a body that is not JSON
C16_Witness ==
    /\ call = "LogipadClient::getAllUsers"
    /\ pre # ""
    /\ FirstAnswer.received
    /\ FirstAnswer.status = 200
    /\ FirstAnswer.body.doc = Invalid
    /\ ret = "false"

\* a message is not empty
NonEmptyText(message) == \E i \in DOMAIN message : message[i] # ""

\* C17: whenever KeycloakClient::authenticate() or createUser() returns false,
\* getLastError() is a non-empty message afterwards, on every failure path.
C17_FalseLeavesMessage ==
    (/\ call \in {"KeycloakClient::authenticate", "KeycloakClient::createUser"}
     /\ ret = "false")
        => NonEmptyText(getLastError(kc))

\* authenticate() was answered 200 with a body that is not JSON, and the
\* message says so
C17_Witness ==
    /\ call = "KeycloakClient::authenticate"
    /\ wire # <<>>
    /\ FirstAnswer.received
    /\ FirstAnswer.status = 200
    /\ FirstAnswer.body.doc = Invalid
    /\ ret = "false"
    /\ getLastError(kc) = <<"Failed to parse JSON response: ", ParseError>>

\* C18: setCredentials(u, p) replaces the stored username and password and
\* clears the token: right afterwards isAuthenticated() is false, whatever
\* the state before, and the next token request carries exactly u and p.
C18_SetCredentials ==
    /\ [](call = "KeycloakClient::setCredentials"
            => /\ ~isAuthenticated(kc)
               /\ getAccessToken(kc) = ""
               /\ kc.m_username = args.username
               /\ kc.m_password = args.password)
    /\ [][(call = "KeycloakClient::setCredentials" /\ SentTokenRequest')
             => /\ wire'[1].req.path[1] = "/realms/"
                /\ wire'[1].req.params.username = args.username
                /\ wire'[1].req.params.password = args.password]_vars

\* setCredentials("admin", "pw") was called while a token was held
C18_Witness ==
    /\ call = "KeycloakClient::setCredentials"
    /\ pre # ""
    /\ args.username = "admin"
    /\ args.password = "pw"
    /\ ~isAuthenticated(kc)

\* the body of the creation request the last call sent
CreateBody == wire[Len(wire)].req.body

\* a body has a credentials array of exactly one element, of type "password"
\* and temporary
OneTemporaryCredential(body) ==
    /\ "credentials" \in DOMAIN body.o
    /\ body.o["credentials"].t = "array"
    /\ Len(body.o["credentials"].a) = 1
    /\ body.o["credentials"].a[1].o["type"] = JStr("password")
    /\ body.o["credentials"].a[1].o["temporary"] = JBool(TRUE)

RecordPasswords == {u.password : u \in UserInfos}

\* the strings a creation body holds
StringsOf(body) ==
    {body.o[k].s : k \in {"username", "email", "firstName", "lastName"}}
    \cup (IF "credentials" \in DOMAIN body.o
          THEN {body.o["credentials"].a[i].o["value"].s :
                    i \in DOMAIN body.o["credentials"].a}
          ELSE {})

IsTokenRequest(i) == wire[i].req.path[1] = "/realms/"

IsCreateRequest(i) == wire[i].req.path[1] = "/admin/realms/"

IsUsersRequest(i) == wire[i].req.path = <<"/users">>

\* an answer to a token request on which authenticate() returns true
TokenGranted(res) ==
    /\ res.received
    /\ res.status = 200
    /\ HasAccessToken(res)
    /\ res.body.doc.o["access_token"].t = "string"

\* C21: no operation retries: one authenticate() sends at most one token
\* request, one getAllUsers() at most one GET /users, one createUser() at
\* most one token request followed by at most one creation request, and none
\* after a token request that failed; setCredentials() sends nothing.
C21_NoRetries ==
    /\ call \in {"KeycloakClient::authenticate", "LogipadClient::authenticate",
                 "LPLogipadClient::authenticate"}
           => (Len(wire) <= 1 /\ \A i \in DOMAIN wire : IsTokenRequest(i))
    /\ call \in {"LogipadClient::getAllUsers", "LPLogipadClient::getAllUsers"}
           => (Len(wire) <= 1 /\ \A i \in DOMAIN wire : IsUsersRequest(i))
    /\ call = "KeycloakClient::createUser"
           => /\ Cardinality({i \in DOMAIN wire : IsTokenRequest(i)}) <= 1
              /\ Cardinality({i \in DOMAIN wire : IsCreateRequest(i)}) <= 1
              /\ \A i \in DOMAIN wire : IsTokenRequest(i) \/ IsCreateRequest(i)
              /\ \A i \in DOMAIN wire : IsTokenRequest(i) => i = 1
              /\ (wire # <<>> /\ IsTokenRequest(1) /\ ~TokenGranted(wire[1].res))
                     => Len(wire) = 1
    /\ call \in {"KeycloakClient::setCredentials", "constructor"} => wire = <<>>

\* createUser() sent a token request, then a creation request that was
\* refused with 401, and nothing after it
C21_Witness ==
    /\ call = "KeycloakClient::createUser"
    /\ Len(wire) = 2
    /\ IsTokenRequest(1)
    /\ IsCreateRequest(2)
    /\ wire[2].res.received
    /\ wire[2].res.status = 401
    /\ ret = "false"

\* C22: a client's token changes only inside authenticate() and
\* setCredentials(): createUser() called with a token held, and
\* getAllUsers(), leave the token as it was, whatever the answer.
C22_TokenFrame ==
    /\ [][(call' = "KeycloakClient::createUser" /\ getAccessToken(kc) # "")
             => getAccessToken(kc') = getAccessToken(kc)]_vars
    /\ [][call' \in {"LogipadClient::getAllUsers", "LPLogipadClient::getAllUsers"}
             => /\ getAccessToken(lc') = getAccessToken(lc)
                /\ getAccessToken(lp') = getAccessToken(lp)]_vars
    /\ [][getAccessToken(kc') # getAccessToken(kc)
             => \/ call' \in {"KeycloakClient::authenticate",
                              "KeycloakClient::setCredentials"}
                \/ (call' = "KeycloakClient::createUser" /\ getAccessToken(kc) = "")]_vars
    /\ [][getAccessToken(lc') # getAccessToken(lc)
             => call' = "LogipadClient::authenticate"]_vars

\* createUser() was refused with 403 while the token abc was held, and abc
\* is still held
C22_Witness ==
    /\ call = "KeycloakClient::createUser"
    /\ pre = "abc"
    /\ wire # <<>>
    /\ FirstAnswer.received
    /\ FirstAnswer.status = 403
    /\ getAccessToken(kc) = "abc"

\* the access_token of an answer that grants one
GrantedToken(res) == res.body.doc.o["access_token"].s

\* C23: every GET /users a directory client sends carries the Authorization
\* header "Bearer T" where T is not empty and is the access_token returned to
\* the most recent authenticate() call on that instance, which succeeded; no
\* GET /users is sent before a successful authenticate().  Stated step by
\* step: authenticate() leaves the token it was granted when it returns true
\* and the empty token otherwise, no other operation changes the token, and
\* a GET /users carries the token held, which is not empty.
C23_BearerOfLastAuthenticate ==
    /\ [][call' = "LogipadClient::authenticate"
             => getAccessToken(lc')
                    = IF ret' = "true" THEN GrantedToken(wire'[1].res) ELSE ""]_vars
    /\ [][call' # "LogipadClient::authenticate"
             => getAccessToken(lc') = getAccessToken(lc)]_vars
    /\ [][(call' = "LogipadClient::getAllUsers" /\ wire' # <<>>)
             => /\ Len(wire') = 1
                /\ getAccessToken(lc) # ""
                /\ "Authorization" \in DOMAIN wire'[1].req.headers
                /\ wire'[1].req.headers["Authorization"]
                       = <<"Bearer ", getAccessToken(lc)>>]_vars
    /\ [][call' = "LPLogipadClient::authenticate"
             => getAccessToken(lp')
                    = IF ret' = "true" THEN GrantedToken(wire'[1].res) ELSE ""]_vars
    /\ [][call' # "LPLogipadClient::authenticate"
             => getAccessToken(lp') = getAccessToken(lp)]_vars
    /\ [][(call' = "LPLogipadClient::getAllUsers" /\ wire' # <<>>)
             => /\ Len(wire') = 1
                /\ getAccessToken(lp) # ""
                /\ "Authorization" \in DOMAIN wire'[1].req.headers
                /\ wire'[1].req.headers["Authorization"]
                       = <<"Bearer ", getAccessToken(lp)>>]_vars

\* a GET /users was sent with the bearer xyz
C23_Witness ==
    /\ call = "LogipadClient::getAllUsers"
    /\ Len(wire) = 1
    /\ wire[1].req.headers["Authorization"] = <<"Bearer ", "xyz">>
    /\ getAccessToken(lc) = "xyz"

\* C24: every user-creation request createUser() sends carries an
\* Authorization header with a non-empty bearer token, also when the token
\* was just obtained by the authenticate() inside createUser().
C24_CreationCarriesBearer ==
    (call = "KeycloakClient::createUser" /\ SentCreateRequest)
        => /\ "Authorization" \in DOMAIN wire[Len(wire)].req.headers
           /\ wire[Len(wire)].req.headers["Authorization"][1] = "Bearer "
           /\ wire[Len(wire)].req.headers["Authorization"][2] # ""

\* C25: whenever getAllUsers() returns false the caller's collection is empty,
\* also when the mapping fails on a later entry after earlier entries were
\* mapped.
C25_FalseLeavesEmpty ==
    /\ (call = "LogipadClient::getAllUsers" /\ ret = "false") => users = <<>>
    /\ (call = "LPLogipadClient::getAllUsers" /\ ret = "false") => lpUsers = <<>>

\* C26: whenever the identity-provider client holds a non-empty token, that
\* token was returned by a token request made with the username and password
\* now stored, and after setCredentials() no request carries a token obtained
\* under the previous credentials.  Stated step by step: a step that leaves
\* a non-empty token and changed it or sent a token request sent that
\* request with the stored credentials and holds the token it was granted; a
\* step that changes the credentials leaves no token; a creation request
\* carries no bearer but the token held.
C26_TokenOfStoredCredentials ==
    /\ [][(/\ getAccessToken(kc') # ""
           /\ (getAccessToken(kc') # getAccessToken(kc) \/ SentTokenRequest'))
             => /\ wire' # <<>>
                /\ wire'[1].req.path[1] = "/realms/"
                /\ wire'[1].req.params.username = kc'.m_username
                /\ wire'[1].req.params.password = kc'.m_password
                /\ TokenGranted(wire'[1].res)
                /\ getAccessToken(kc') = GrantedToken(wire'[1].res)]_vars
    /\ [][(kc'.m_username # kc.m_username \/ kc'.m_password # kc.m_password)
             => /\ call' = "KeycloakClient::setCredentials"
                /\ getAccessToken(kc') = ""]_vars
    /\ [][(/\ call' = "KeycloakClient::createUser"
           /\ SentCreateRequest'
           /\ "Authorization" \in DOMAIN wire'[Len(wire')].req.headers)
             => wire'[Len(wire')].req.headers["Authorization"]
                    = <<"Bearer ", getAccessToken(kc')>>]_vars

\* createUser() obtained the token xyz with the stored credentials and sent
\* the creation request with it
C26_Witness ==
    /\ call = "KeycloakClient::createUser"
    /\ pre = ""
    /\ Len(wire) = 2
    /\ wire[1].req.params.username = kc.m_username
    /\ wire[1].req.params.password = kc.m_password
    /\ getAccessToken(kc) = "xyz"
    /\ wire[2].req.headers["Authorization"] = <<"Bearer ", "xyz">>

\* C27: getAllUsers() maps the entries alike in both envelopes: for the array
\* A of entries of the answer, the response A and the response {"users": A}
\* give the same return value and the same collection, which are those of
\* the call.
C27_EnvelopesAgree ==
    /\ (Listed("LogipadClient::getAllUsers") /\ HasUserArray(FirstAnswer))
           => LET A == Entries(FirstAnswer)
                  top == LogipadClient_getAllUsers_parse(
                             lc, Body("json", JArr(A)), wire)
                  nested == LogipadClient_getAllUsers_parse(
                                lc, Body("json", JObj([users |-> JArr(A)])), wire)
              IN  /\ top.ret = nested.ret
                  /\ top.users = nested.users
                  /\ ret = top.ret
                  /\ users = top.users
    /\ (Listed("LPLogipadClient::getAllUsers") /\ HasUserArray(FirstAnswer))
           => LET A == Entries(FirstAnswer)
                  top == LPLogipadClient_getAllUsers_parse(
                             lp, Body("json", JArr(A)), wire)
                  nested == LPLogipadClient_getAllUsers_parse(
                                lp, Body("json", JObj([users |-> JArr(A)])), wire)
              IN  /\ top.ret = nested.ret
                  /\ top.users = nested.users
                  /\ ret = top.ret
                  /\ lpUsers = top.users

\* {"users": [g2, g5 with a null is_active]} was listed: false, with g2 kept,
\* as for the top-level array
C27_Witness ==
    /\ Listed("LogipadClient::getAllUsers")
    /\ FirstAnswer.body.doc.t = "object"
    /\ Len(Entries(FirstAnswer)) = 2
    /\ ret = "false"
    /\ Len(users) = 1
    /\ users[1].guid = "g2"

\* C28: on HTTP 200 with a JSON body that is neither an array nor an object
\* with a `users` array, getAllUsers() returns true with an empty collection.
C28_OtherShapes ==
    /\ (/\ Listed("LogipadClient::getAllUsers")
        /\ FirstAnswer.body.doc # Invalid
        /\ ~HasUserArray(FirstAnswer))
           => (ret = "true" /\ users = <<>>)
    /\ (/\ Listed("LPLogipadClient::getAllUsers")
        /\ FirstAnswer.body.doc # Invalid
        /\ ~HasUserArray(FirstAnswer))
           => (ret = "true" /\ lpUsers = <<>>)

\* the answer was an object whose `users` is a string
C28_Witness ==
    /\ Listed("LogipadClient::getAllUsers")
    /\ FirstAnswer.body.doc.t = "object"
    /\ "users" \in DOMAIN FirstAnswer.body.doc.o
    /\ FirstAnswer.body.doc.o["users"].t = "string"
    /\ ret = "true"
    /\ users = <<>>

\* an entry holds null under one of the boolean keys
NullBoolean(e) == \E k \in BooleanFields : EntryHas(e, k) /\ e.o[k].t = "null"

\* an entry holds null under one of the optional string keys
NullString(e) == \E k \in OptionalFields : EntryHas(e, k) /\ e.o[k].t = "null"

\* C30: an entry whose is_active or is_reportable is present with the value
\* null makes getAllUsers() return false (the defaults are for an absent key
\* only), while a null optional string field is read as absent: a listing
\* whose entries are well typed, one with a null string field, returns true.
C30_NullBooleanFails ==
    /\ (/\ call \in {"LogipadClient::getAllUsers", "LPLogipadClient::getAllUsers"}
        /\ Listed(call)
        /\ HasUserArray(FirstAnswer)
        /\ \E i \in DOMAIN Entries(FirstAnswer) : NullBoolean(Entries(FirstAnswer)[i]))
           => ret = "false"
    /\ (/\ call \in {"LogipadClient::getAllUsers", "LPLogipadClient::getAllUsers"}
        /\ Listed(call)
        /\ HasUserArray(FirstAnswer)
        /\ \A i \in DOMAIN Entries(FirstAnswer) : WellTyped(Entries(FirstAnswer)[i])
        /\ \E i \in DOMAIN Entries(FirstAnswer) : NullString(Entries(FirstAnswer)[i]))
           => ret = "true"

\* the only entry has a null is_reportable
C30_Witness ==
    /\ Listed("LogipadClient::getAllUsers")
    /\ Len(Entries(FirstAnswer)) = 1
    /\ EntryHas(Entries(FirstAnswer)[1], "is_reportable")
    /\ Entries(FirstAnswer)[1].o["is_reportable"].t = "null"
    /\ ret = "false"
    /\ users = <<>>

\* a document is what toJson is to emit for a record: guid, is_active,
\* is_reportable, and exactly the optional fields that have a value
EmitsRecord(doc, record) ==
    /\ doc.t = "object"
    /\ DOMAIN doc.o = {"guid", "is_active", "is_reportable"}
                      \cup {k \in OptionalFields : record[k].has_value}
    /\ doc.o["guid"] = JStr(record.guid)
    /\ doc.o["is_active"] = JBool(record.is_active)
    /\ doc.o["is_reportable"] = JBool(record.is_reportable)
    /\ \A k \in OptionalFields :
           record[k].has_value => doc.o[k] = JStr(record[k].value)

\* C29: User::toJson emits guid, is_active, is_reportable and exactly the
\* optional fields that have a value, and the entry mapping of getAllUsers()
\* (of either envelope) maps the emitted document back to the record it was
\* made from, for every record.
C29_RoundTrip ==
    /\ call = "LogipadClient::User::toJson"
           => /\ EmitsRecord(document, users[args.index])
              /\ LogipadClient_mapArrayEntry(document)
                     = [exc |-> NoExc, user |-> users[args.index]]
              /\ LogipadClient_mapNestedEntry(document)
                     = [exc |-> NoExc, user |-> users[args.index]]
    /\ call = "LPLogipadClient::User::toJson"
           => /\ EmitsRecord(document, lpUsers[args.index])
              /\ LPLogipadClient_mapArrayEntry(document)
                     = [exc |-> NoExc, user |-> lpUsers[args.index]]
              /\ LPLogipadClient_mapNestedEntry(document)
                     = [exc |-> NoExc, user |-> lpUsers[args.index]]

\* a listed record that is inactive and has an email was serialized
C29_Witness ==
    /\ call = "LogipadClient::User::toJson"
    /\ users[args.index].guid = "g2"
    /\ users[args.index].is_active = FALSE
    /\ users[args.index].email.has_value
    /\ document.o["email"] = JStr("a@b.com")
    /\ "name" \notin DOMAIN document.o

====
